---- MODULE Spec2Model ----
(***************************************************************************)
(* Model of scripts/install_bundled.py: the bundler that cleans and        *)
(* recreates <repo_root>/bundled, installs the language-server package     *)
(* into bundled/libs with two pip invocations, writes the launcher         *)
(* (__main__.py) and the smoke test (test_bundle.py), marks them           *)
(* executable and runs the smoke test.  The generated launcher is modelled *)
(* as a second small program that runs against the bundle.                 *)
(***************************************************************************)
EXTENDS Integers, Sequences, FiniteSets, TLC

VARIABLES
    fs,        \* the bundle directory: kind, libs/, installed modules, files
    proc,      \* per bundler invocation: position, return codes, exit status
    launcher,  \* the generated __main__.py while it executes
    env,       \* what a behaviour does not change: umask, package index
    runs       \* bundler invocations started so far

vars == <<fs, proc, launcher, env, runs>>

----------------------------------------------------------------------------
(* Bounds and program constants *)

\* Successive invocations of the bundler in one behaviour.
MaxRuns == 2

Procs == {1, 2}

\* os.chmod(..., 0o755)
ExecMode == 493
\* open(path, "w") creates a file with 0o666 masked by the umask
CreateMode == 438
\* the nine permission bits, 0o777
PermBits == 511

\* umask 0o022, 0o077
Umasks == {18, 63}

BundledPath == "bundled"
LibsPath == "bundled/libs"
LauncherFile == "__main__.py"
TestFile == "test_bundle.py"
OtherFile == "notes.txt"
FileNames == {LauncherFile, TestFile, OtherFile}

\* What the package itself may provide, and what its dependencies may.
PackageModules == {"lark_language_server.server", "lark_language_server.__main__"}
DependencyModules == {"lark", "pygls.server", "lsprotocol.types"}
Modules == PackageModules \cup DependencyModules

\* import lark / pygls.server / lsprotocol.types / lark_language_server.server
TestImports == {"lark", "pygls.server", "lsprotocol.types", "lark_language_server.server"}
\* from lark_language_server.__main__ import main
LauncherImport == "lark_language_server.__main__"

\* pip's exit statuses: success, error, unknown command
InstallerExits == {0, 1, 2}

----------------------------------------------------------------------------
(* Filesystem *)

NoFile == [content |-> "none", mode |-> 0]

AbsentFs == [kind |-> "absent", libs |-> FALSE, mods |-> {},
             files |-> [n \in FileNames |-> NoFile]]

EmptyDirFs == [AbsentFs EXCEPT !.kind = "dir"]

RECURSIVE BitAnd(_, _)
BitAnd(a, b) ==
    IF a = 0 \/ b = 0 THEN 0
    ELSE (a % 2) * (b % 2) + 2 * BitAnd(a \div 2, b \div 2)

\* (mutant) the existence check never sees the old bundle
ExistsNever(f) == FALSE

\* Path.exists(): true of a directory and of a regular file
Exists(f) == f.kind # "absent"

\* (mutant) the removal leaves the files that are not regenerated
RemoveTreeKeepsOther(f) == [AbsentFs EXCEPT !.files[OtherFile] = f.files[OtherFile]]

\* shutil.rmtree(bundled_dir) on a directory: nothing is left
RemoveTree(f) == AbsentFs

\* open(name, "w") + write: creates (mode from the umask) or truncates
\* (mode kept), then holds the written text
WriteFile(f, name, text) ==
    [f EXCEPT !.files[name] =
        [content |-> text,
         mode |-> IF f.files[name] = NoFile
                  THEN BitAnd(CreateMode, PermBits - env.umask)
                  ELSE f.files[name].mode]]

\* (mutant) the chmod is dropped
ChmodNoop(f, name, mode) == f

\* os.chmod(name, mode): the mode is set outright
ChmodFile(f, name, mode) == [f EXCEPT !.files[name].mode = mode]

\* pip install --target libs: the target directory is made if missing and
\* the distributions' modules are placed in it
InstallInto(f, mods) ==
    [f EXCEPT !.kind = "dir", !.libs = TRUE, !.mods = f.mods \cup mods]

\* (mutant) check=False: the status is ignored
NeverRaises(rc) == FALSE

\* subprocess.run(..., check=True): a non-zero status raises
Raises(rc) == rc # 0

\* (mutant) the half-built directory is removed on failure
AfterInstallerFailureCleanup(f) == AbsentFs

\* a failed installer call propagates: nothing is removed or restored
AfterInstallerFailure(f) == f

\* (mutant) sys.path.append(x)
InsertBack(path, x) == Append(path, x)

\* sys.path.insert(0, x)
InsertFront(path, x) == <<x>> \o path

\* the import system: a module of libs is found when libs is on the path
Importable(m, path, f) ==
    /\ f.kind = "dir"
    /\ f.libs
    /\ m \in f.mods
    /\ \E i \in DOMAIN path : path[i] = LibsPath

\* sys.path of the test script once its two inserts are done
TestPath == InsertFront(InsertFront(<<BundledPath>>, LibsPath), BundledPath)

\* exit status of `python test_bundle.py` with the generated text
TestScriptExit(f) ==
    IF \A m \in TestImports : Importable(m, TestPath, f) THEN 0 ELSE 1

\* exit statuses python can give for what sits at bundled/test_bundle.py
TestOutcomes(f) ==
    IF f.kind # "dir" \/ f.files[TestFile] = NoFile THEN {2}
    ELSE IF f.files[TestFile].content = "test" THEN {TestScriptExit(f)}
    ELSE {0, 1}

\* (mutant) the sys.exit(1) of the failure branch is missing
ReportExitZero(rc) == 0

\* the exit status main() ends with after the test subprocess returned
ReportExit(rc) == IF rc = 0 THEN 0 ELSE 1

CompleteBundle(f) ==
    /\ f.kind = "dir"
    /\ f.libs
    /\ f.files[LauncherFile] = [content |-> "launcher", mode |-> ExecMode]
    /\ f.files[TestFile] = [content |-> "test", mode |-> ExecMode]

----------------------------------------------------------------------------
(* The bundler: main() *)

FreshProc == [pc |-> "start", exit |-> -1, rc1 |-> -1, rc2 |-> -1,
              testRc |-> -1, steps |-> <<>>, msg |-> "", err |-> "",
              lostWork |-> FALSE, treeAtExit |-> FALSE,
              sawLauncher |-> FALSE]

IdleProc == [FreshProc EXCEPT !.pc = "off"]

\* (mutant) both files are written before either chmod
NextStepWritesFirst(s) ==
    CASE s = "start" -> "mkdir_bundled"
      [] s = "rmtree" -> "mkdir_bundled"
      [] s = "mkdir_bundled" -> "mkdir_libs"
      [] s = "mkdir_libs" -> "install_nodeps"
      [] s = "install_nodeps" -> "install_upgrade"
      [] s = "install_upgrade" -> "write_launcher"
      [] s = "write_launcher" -> "write_test"
      [] s = "write_test" -> "chmod_launcher"
      [] s = "chmod_launcher" -> "chmod_test"
      [] s = "chmod_test" -> "run_test"
      [] s = "run_test" -> "report"
      [] OTHER -> "done"

\* the statements of main() in program order
NextStep(s) ==
    CASE s = "start" -> "mkdir_bundled"
      [] s = "rmtree" -> "mkdir_bundled"
      [] s = "mkdir_bundled" -> "mkdir_libs"
      [] s = "mkdir_libs" -> "install_nodeps"
      [] s = "install_nodeps" -> "install_upgrade"
      [] s = "install_upgrade" -> "write_launcher"
      [] s = "write_launcher" -> "chmod_launcher"
      [] s = "chmod_launcher" -> "write_test"
      [] s = "write_test" -> "chmod_test"
      [] s = "chmod_test" -> "run_test"
      [] s = "run_test" -> "report"
      [] OTHER -> "done"

\* an uncaught exception ends the interpreter with status 1
Crash(p, e) ==
    proc' = [proc EXCEPT ![p].pc = "done", ![p].exit = 1, ![p].err = e,
                         ![p].treeAtExit = CompleteBundle(fs')]

Advance(p, step) ==
    proc' = [proc EXCEPT ![p].pc = NextStep(proc[p].pc),
                         ![p].steps = Append(proc[p].steps, step)]

\* if bundled_dir.exists():
CheckExists(p) ==
    /\ proc[p].pc = "start"
    /\ IF Exists(fs)
       THEN proc' = [proc EXCEPT ![p].pc = "rmtree",
                        ![p].sawLauncher = fs.files[LauncherFile].content = "launcher"]
       ELSE Advance(p, "clean")
    /\ UNCHANGED <<fs, launcher, env, runs>>

\* the steps at which a run has made bundled/ and still has to use it
Building == {"mkdir_libs", "install_nodeps", "install_upgrade",
             "write_launcher", "chmod_launcher", "write_test", "chmod_test",
             "run_test"}

\* another invocation q loses what it has built when p removes the tree
Interfere(pr, p) ==
    [q \in Procs |->
        IF q # p /\ pr[q].pc \in Building
        THEN [pr[q] EXCEPT !.lostWork = TRUE]
        ELSE pr[q]]

\* (mutant) the removal waits while another invocation is building
RmtreeLocked(p) ==
    /\ proc[p].pc = "rmtree"
    /\ \A q \in Procs \ {p} : proc[q].pc \notin Building
    /\ fs' = AbsentFs
    /\ proc' = [proc EXCEPT ![p].pc = "mkdir_bundled",
                            ![p].steps = Append(proc[p].steps, "clean")]
    /\ UNCHANGED <<launcher, env, runs>>

\* shutil.rmtree(bundled_dir)
Rmtree(p) ==
    /\ proc[p].pc = "rmtree"
    /\ IF fs.kind = "dir"
       THEN /\ fs' = RemoveTree(fs)
            /\ proc' = Interfere([proc EXCEPT ![p].pc = NextStep("rmtree"),
                                    ![p].steps = Append(proc[p].steps, "clean")], p)
       ELSE /\ fs' = fs
            /\ Crash(p, IF fs.kind = "file" THEN "NotADirectoryError"
                        ELSE "FileNotFoundError")
    /\ UNCHANGED <<launcher, env, runs>>

\* bundled_dir.mkdir()
MkdirBundled(p) ==
    /\ proc[p].pc = "mkdir_bundled"
    /\ IF fs.kind = "absent"
       THEN /\ fs' = [fs EXCEPT !.kind = "dir"]
            /\ proc' = [proc EXCEPT ![p].pc = NextStep("mkdir_bundled")]
       ELSE /\ fs' = fs
            /\ Crash(p, "FileExistsError")
    /\ UNCHANGED <<launcher, env, runs>>

\* libs_dir.mkdir()
MkdirLibs(p) ==
    /\ proc[p].pc = "mkdir_libs"
    /\ IF fs.kind = "dir" /\ ~fs.libs
       THEN /\ fs' = [fs EXCEPT !.libs = TRUE]
            /\ Advance(p, "mkdir")
       ELSE /\ fs' = fs
            /\ Crash(p, IF fs.kind = "dir" THEN "FileExistsError"
                        ELSE "FileNotFoundError")
    /\ UNCHANGED <<launcher, env, runs>>

\* pip install --target libs --no-deps <req>, check=True
InstallNoDeps(p) ==
    /\ proc[p].pc = "install_nodeps"
    /\ \E rc \in InstallerExits :
        IF Raises(rc)
        THEN /\ fs' = AfterInstallerFailure(fs)
             /\ proc' = [proc EXCEPT ![p].pc = "done", ![p].exit = 1,
                            ![p].rc1 = rc, ![p].err = "CalledProcessError",
                            ![p].treeAtExit = CompleteBundle(fs')]
        ELSE /\ fs' = IF rc = 0 THEN InstallInto(fs, env.pkgMods) ELSE fs
             /\ proc' = [proc EXCEPT ![p].pc = NextStep("install_nodeps"),
                            ![p].rc1 = rc,
                            ![p].steps = Append(proc[p].steps, "install_nodeps")]
    /\ UNCHANGED <<launcher, env, runs>>

\* pip install --target libs --upgrade <all_deps>, check=True
InstallUpgrade(p) ==
    /\ proc[p].pc = "install_upgrade"
    /\ \E rc \in InstallerExits :
        IF Raises(rc)
        THEN /\ fs' = AfterInstallerFailure(fs)
             /\ proc' = [proc EXCEPT ![p].pc = "done", ![p].exit = 1,
                            ![p].rc2 = rc, ![p].err = "CalledProcessError",
                            ![p].treeAtExit = CompleteBundle(fs')]
        ELSE /\ fs' = IF rc = 0
                      THEN InstallInto(fs, env.pkgMods \cup env.depMods)
                      ELSE fs
             /\ proc' = [proc EXCEPT ![p].pc = NextStep("install_upgrade"),
                            ![p].rc2 = rc,
                            ![p].steps = Append(proc[p].steps, "install_upgrade")]
    /\ UNCHANGED <<launcher, env, runs>>

\* with open(bundled_dir / "__main__.py", "w") as f: f.write(main_py_content)
WriteLauncher(p) ==
    /\ proc[p].pc = "write_launcher"
    /\ IF fs.kind = "dir"
       THEN /\ fs' = WriteFile(fs, LauncherFile, "launcher")
            /\ Advance(p, "write_launcher")
       ELSE /\ fs' = fs
            /\ Crash(p, "FileNotFoundError")
    /\ UNCHANGED <<launcher, env, runs>>

\* os.chmod(bundled_dir / "__main__.py", 0o755)
ChmodLauncher(p) ==
    /\ proc[p].pc = "chmod_launcher"
    /\ IF fs.kind = "dir" /\ fs.files[LauncherFile] # NoFile
       THEN /\ fs' = ChmodFile(fs, LauncherFile, ExecMode)
            /\ Advance(p, "chmod_launcher")
       ELSE /\ fs' = fs
            /\ Crash(p, "FileNotFoundError")
    /\ UNCHANGED <<launcher, env, runs>>

\* with open(test_script, "w") as f: f.write(...)
WriteTest(p) ==
    /\ proc[p].pc = "write_test"
    /\ IF fs.kind = "dir"
       THEN /\ fs' = WriteFile(fs, TestFile, "test")
            /\ Advance(p, "write_test")
       ELSE /\ fs' = fs
            /\ Crash(p, "FileNotFoundError")
    /\ UNCHANGED <<launcher, env, runs>>

\* os.chmod(test_script, 0o755)
ChmodTest(p) ==
    /\ proc[p].pc = "chmod_test"
    /\ IF fs.kind = "dir" /\ fs.files[TestFile] # NoFile
       THEN /\ fs' = ChmodFile(fs, TestFile, ExecMode)
            /\ Advance(p, "chmod_test")
       ELSE /\ fs' = fs
            /\ Crash(p, "FileNotFoundError")
    /\ UNCHANGED <<launcher, env, runs>>

\* subprocess.run([sys.executable, str(test_script)], check=True)
RunTest(p) ==
    /\ proc[p].pc = "run_test"
    /\ \E rc \in TestOutcomes(fs) :
        proc' = [proc EXCEPT ![p].pc = NextStep("run_test"),
                             ![p].testRc = rc,
                             ![p].steps = Append(proc[p].steps, "run_test")]
    /\ UNCHANGED <<fs, launcher, env, runs>>

\* print("Bundle test passed!")  /  print("Bundle test failed!"); sys.exit(1)
Report(p) ==
    /\ proc[p].pc = "report"
    /\ proc' = [proc EXCEPT ![p].pc = NextStep("report"),
                   ![p].msg = IF Raises(proc[p].testRc) THEN "Bundle test failed!"
                              ELSE "Bundle test passed!",
                   ![p].exit = ReportExit(proc[p].testRc),
                   ![p].steps = Append(proc[p].steps, "report"),
                   ![p].treeAtExit = CompleteBundle(fs)]
    /\ UNCHANGED <<fs, launcher, env, runs>>

RunStep(p) ==
    \/ CheckExists(p)
    \/ Rmtree(p)
    \/ MkdirBundled(p)
    \/ MkdirLibs(p)
    \/ InstallNoDeps(p)
    \/ InstallUpgrade(p)
    \/ WriteLauncher(p)
    \/ ChmodLauncher(p)
    \/ WriteTest(p)
    \/ ChmodTest(p)
    \/ RunTest(p)
    \/ Report(p)

----------------------------------------------------------------------------
(* The generated launcher: main_py_content *)

LauncherOff == [pc |-> "off", sysPath |-> <<>>, exc |-> "none", exit |-> -1,
                err |-> <<>>, calls |-> 0]

\* sys.path when the interpreter starts the script
StartPaths == {<<BundledPath>>, <<BundledPath, "site-packages">>,
               <<"", "site-packages">>}

LaunchStart ==
    /\ launcher.pc = "off"
    /\ proc[1].pc = "done"
    /\ fs.kind = "dir"
    /\ fs.files[LauncherFile].content = "launcher"
    /\ \E sp \in StartPaths :
        launcher' = [LauncherOff EXCEPT !.pc = "insert_libs", !.sysPath = sp]
    /\ UNCHANGED <<fs, proc, env, runs>>

\* sys.path.insert(0, str(libs_dir))
LaunchInsertLibs ==
    /\ launcher.pc = "insert_libs"
    /\ launcher' = [launcher EXCEPT !.pc = "insert_bundled",
                       !.sysPath = InsertFront(launcher.sysPath, LibsPath)]
    /\ UNCHANGED <<fs, proc, env, runs>>

\* sys.path.insert(0, str(bundled_dir))
LaunchInsertBundled ==
    /\ launcher.pc = "insert_bundled"
    /\ launcher' = [launcher EXCEPT !.pc = "import",
                       !.sysPath = InsertFront(launcher.sysPath, BundledPath)]
    /\ UNCHANGED <<fs, proc, env, runs>>

\* from lark_language_server.__main__ import main
LaunchImport ==
    /\ launcher.pc = "import"
    /\ launcher' = IF Importable(LauncherImport, launcher.sysPath, fs)
                   THEN [launcher EXCEPT !.pc = "call_main"]
                   ELSE [launcher EXCEPT !.pc = "except", !.exc = "ImportError"]
    /\ UNCHANGED <<fs, proc, env, runs>>

\* main(): returns, raises ImportError, or raises something else
LaunchCallMain ==
    /\ launcher.pc = "call_main"
    /\ \E outcome \in {"return", "ImportError", "RuntimeError"} :
        launcher' =
            CASE outcome = "return" ->
                    [launcher EXCEPT !.pc = "exited", !.exit = 0,
                                     !.calls = launcher.calls + 1]
              [] outcome = "ImportError" ->
                    [launcher EXCEPT !.pc = "except", !.exc = "ImportError",
                                     !.calls = launcher.calls + 1]
              [] OTHER ->
                    [launcher EXCEPT !.pc = "exited", !.exit = 1,
                                     !.exc = outcome,
                                     !.err = <<[text |-> "Traceback", path |-> <<>>]>>,
                                     !.calls = launcher.calls + 1]
    /\ UNCHANGED <<fs, proc, env, runs>>

\* except ImportError as e: two prints to sys.stderr, sys.exit(1)
LaunchExcept ==
    /\ launcher.pc = "except"
    /\ launcher' = [launcher EXCEPT !.pc = "exited", !.exit = 1,
            !.err = <<[text |-> "Error: Could not import language server",
                       path |-> <<>>],
                      [text |-> "Python path", path |-> launcher.sysPath]>>]
    /\ UNCHANGED <<fs, proc, env, runs>>

LauncherStep ==
    \/ LaunchStart
    \/ LaunchInsertLibs
    \/ LaunchInsertBundled
    \/ LaunchImport
    \/ LaunchCallMain
    \/ LaunchExcept

----------------------------------------------------------------------------
(* Specifications *)

StaleFiles == {NoFile, [content |-> "stale", mode |-> 420]}
OldLauncher == {NoFile, [content |-> "launcher", mode |-> ExecMode],
                [content |-> "stale", mode |-> 420]}
OldTest == {NoFile, [content |-> "test", mode |-> ExecMode]}

\* what may sit at <repo_root>/bundled before a run
InitialTrees ==
    {AbsentFs, [AbsentFs EXCEPT !.kind = "file"]}
    \cup
    { [kind |-> "dir", libs |-> l, mods |-> m,
       files |-> [n \in FileNames |->
                    IF n = LauncherFile THEN a
                    ELSE IF n = TestFile THEN b ELSE c]] :
        l \in BOOLEAN, m \in {{}, Modules}, a \in OldLauncher,
        b \in OldTest, c \in StaleFiles }

ValidTree(f) == f.libs \/ f.mods = {}

Envs == [umask : Umasks, pkgMods : SUBSET PackageModules,
         depMods : {DependencyModules, DependencyModules \ {"pygls.server"}}]

Init ==
    /\ fs \in {f \in InitialTrees : ValidTree(f)}
    /\ env \in Envs
    /\ proc = [p \in Procs |-> IF p = 1 THEN FreshProc ELSE IdleProc]
    /\ launcher = LauncherOff
    /\ runs = 1

\* the script is run again once the previous invocation has ended
Restart ==
    /\ proc[1].pc = "done"
    /\ launcher.pc \in {"off", "exited"}
    /\ runs < MaxRuns
    /\ runs' = runs + 1
    /\ proc' = [proc EXCEPT ![1] = FreshProc]
    /\ launcher' = LauncherOff
    /\ UNCHANGED <<fs, env>>

Next ==
    \/ RunStep(1)
    \/ Restart
    \/ LauncherStep

Spec == Init /\ [][Next]_vars

\* two invocations started against the same bundle directory
ConcInit ==
    /\ fs \in {AbsentFs, EmptyDirFs,
               [kind |-> "dir", libs |-> TRUE, mods |-> Modules,
                files |-> [n \in FileNames |->
                    IF n = LauncherFile
                    THEN [content |-> "launcher", mode |-> ExecMode]
                    ELSE IF n = TestFile
                    THEN [content |-> "test", mode |-> ExecMode]
                    ELSE NoFile]]}
    /\ env \in Envs
    /\ proc = [p \in Procs |-> FreshProc]
    /\ launcher = LauncherOff
    /\ runs = 2

ConcNext == \E p \in Procs : RunStep(p)

ConcSpec == ConcInit /\ [][ConcNext]_vars

----------------------------------------------------------------------------
(* Properties *)

IsPrefix(s, t) == Len(s) <= Len(t) /\ \A i \in 1..Len(s) : s[i] = t[i]

Failed(rc) == rc \notin {-1, 0}

Present(name) == fs.kind = "dir" /\ fs.files[name] # NoFile

\* C1: when the --no-deps installer call exits non-zero the run ends with a
\* non-zero status and none of the later steps happens: no second installer
\* call, no launcher file, no test file, no test execution.
InstallerFailureStops ==
    Failed(proc[1].rc1) =>
        /\ proc[1].pc = "done"
        /\ proc[1].exit # 0
        /\ proc[1].rc2 = -1
        /\ proc[1].testRc = -1
        /\ ~Present(LauncherFile)
        /\ ~Present(TestFile)
        /\ \A i \in 1..Len(proc[1].steps) :
              proc[1].steps[i] \in {"clean", "mkdir"}

InstallerFailureSeen ==
    /\ proc[1].rc1 = 2
    /\ proc[1].pc = "done"
    /\ proc[1].sawLauncher

\* C2: a run exits 0 exactly when both installer calls and the single test
\* execution exited zero; it exits 1 when an installer call or the test fails,
\* and a test failure is reported before the exit.
ExitStatus ==
    proc[1].pc = "done" =>
        /\ proc[1].exit = 0 <=>
              (proc[1].rc1 = 0 /\ proc[1].rc2 = 0 /\ proc[1].testRc = 0)
        /\ (Failed(proc[1].rc1) \/ Failed(proc[1].rc2) \/ Failed(proc[1].testRc))
              => proc[1].exit = 1
        /\ Failed(proc[1].testRc) => proc[1].msg = "Bundle test failed!"
        /\ Cardinality({i \in 1..Len(proc[1].steps) :
                            proc[1].steps[i] = "run_test"}) <= 1

TestFailureSeen ==
    /\ proc[1].pc = "done"
    /\ proc[1].rc1 = 0
    /\ proc[1].rc2 = 0
    /\ proc[1].testRc = 1
    /\ proc[1].exit = 1

\* C3: when a run exits 0 the bundle directory exists and holds libs, the
\* launcher and the test file, both generated files with mode 0o755.
SuccessBundle ==
    (proc[1].pc = "done" /\ proc[1].exit = 0) =>
        /\ fs.kind = "dir"
        /\ fs.libs
        /\ Present(LauncherFile)
        /\ Present(TestFile)
        /\ fs.files[LauncherFile].mode = ExecMode
        /\ fs.files[TestFile].mode = ExecMode

SuccessUnderTightUmask ==
    /\ proc[1].pc = "done"
    /\ proc[1].exit = 0
    /\ env.umask = 63
    /\ BitAnd(CreateMode, PermBits - env.umask) # ExecMode

\* the tree a successful run leaves, from the package index alone
FreshBundle ==
    [kind |-> "dir", libs |-> TRUE, mods |-> env.pkgMods \cup env.depMods,
     files |-> [n \in FileNames |->
        IF n = LauncherFile THEN [content |-> "launcher", mode |-> ExecMode]
        ELSE IF n = TestFile THEN [content |-> "test", mode |-> ExecMode]
        ELSE NoFile]]

\* C4: the tree left by a successful run depends only on what the installer
\* delivers, not on what the bundle directory held before, so a second run
\* ends with the tree of the first.
Idempotent ==
    (proc[1].pc = "done" /\ proc[1].exit = 0) => fs = FreshBundle

SecondRunSucceeded ==
    /\ runs = 2
    /\ proc[1].pc = "done"
    /\ proc[1].exit = 0
    /\ proc[1].sawLauncher

\* C5: after a run that exited 0 the launcher, executed against the same
\* tree, finds the entry function: it does not end in its ImportError branch
\* without having called main.
SuccessImpliesLauncherWorks ==
    ~ /\ proc[1].pc = "done"
      /\ proc[1].exit = 0
      /\ launcher.pc = "except"
      /\ launcher.calls = 0

\* the order of the steps as the specification lists them
SpecOrder == <<"clean", "mkdir", "install_nodeps", "install_upgrade",
               "write_launcher", "write_test", "chmod_launcher", "chmod_test",
               "run_test", "report">>

\* the order of the steps in main()
CodeOrder == <<"clean", "mkdir", "install_nodeps", "install_upgrade",
               "write_launcher", "chmod_launcher", "write_test", "chmod_test",
               "run_test", "report">>

\* C6 as stated: the completed steps follow clean, create directories,
\* install, install with upgrade, write launcher, write test, mark both
\* executable, run test, report; no file is marked executable before both
\* are written.
StepsInSpecOrder ==
    /\ IsPrefix(proc[1].steps, SpecOrder)
    /\ (Present(LauncherFile) /\ fs.files[LauncherFile].mode = ExecMode
        /\ proc[1].pc \notin {"start", "rmtree"})
          => Present(TestFile)

\* C6 as amended: the completed steps follow clean, create directories,
\* install, install with upgrade, write launcher, mark launcher executable,
\* write test, mark test executable, run test, report; the launcher is marked
\* executable before the test file is written.
StepsInCodeOrder ==
    /\ IsPrefix(proc[1].steps, CodeOrder)
    /\ (Present(TestFile) /\ proc[1].pc \notin {"start", "rmtree"})
          => (Present(LauncherFile) /\ fs.files[LauncherFile].mode = ExecMode)

AllStepsDone == proc[1].steps = CodeOrder

\* C7: two concurrent runs are not protected from one another: whenever a
\* run stands at its removal step over an existing bundle directory, the
\* removal can go ahead and leaves nothing of the tree, whatever the other
\* run has built in it.
ConcCleanUnprotected ==
    \A q \in Procs :
        (proc[q].pc = "rmtree" /\ fs.kind = "dir") =>
            ENABLED (Rmtree(q) /\ fs' = AbsentFs)

\* the other run's rmtree removed what this run had created, and this run
\* then ended with status 0 over an incomplete bundle
ConcCleanDestroysWork ==
    \E p \in Procs :
        /\ proc[p].lostWork
        /\ proc[p].pc = "done"
        /\ proc[p].exit = 0
        /\ ~proc[p].treeAtExit

\* C8: a run that fails at an installer call or at the test exits with what
\* it had built still in place: bundled and libs (and the first call's
\* modules) after an installer failure, and also both generated files with
\* mode 0o755 after a test failure.
NoRollback ==
    /\ (proc[1].pc = "done" /\ (Failed(proc[1].rc1) \/ Failed(proc[1].rc2))) =>
          /\ fs.kind = "dir"
          /\ fs.libs
          /\ proc[1].rc1 = 0 => env.pkgMods \subseteq fs.mods
    /\ (proc[1].pc = "done" /\ Failed(proc[1].testRc)) =>
          /\ fs.kind = "dir"
          /\ fs.libs
          /\ env.pkgMods \cup env.depMods \subseteq fs.mods
          /\ fs.files[LauncherFile] = [content |-> "launcher", mode |-> ExecMode]
          /\ fs.files[TestFile] = [content |-> "test", mode |-> ExecMode]

SecondInstallerFailureSeen ==
    /\ proc[1].pc = "done"
    /\ proc[1].rc1 = 0
    /\ proc[1].rc2 = 1
    /\ env.pkgMods # {}
    /\ fs.libs

\* C9: the launcher puts libs and then bundled at the front of sys.path
\* (bundled at position 0, libs at position 1) before it imports; it calls
\* main at most once; an ImportError from the import or from main ends it
\* with status 1 after the error and sys.path were written to stderr.
LauncherBehaviour ==
    /\ launcher.pc \in {"import", "call_main", "except", "exited"} =>
          /\ Len(launcher.sysPath) >= 2
          /\ launcher.sysPath[1] = BundledPath
          /\ launcher.sysPath[2] = LibsPath
    /\ launcher.pc \in {"off", "insert_libs", "insert_bundled", "import"} =>
          launcher.calls = 0
    /\ launcher.calls <= 1
    /\ (launcher.pc = "exited" /\ launcher.exc = "ImportError") =>
          /\ launcher.exit = 1
          /\ Len(launcher.err) = 2
          /\ launcher.err[1].text = "Error: Could not import language server"
          /\ launcher.err[2] = [text |-> "Python path", path |-> launcher.sysPath]

ImportErrorInMainSeen ==
    /\ launcher.pc = "exited"
    /\ launcher.exc = "ImportError"
    /\ launcher.calls = 1

\* C10: once the clean step of a run is over, the launcher file or the test
\* file exists only if both installer calls of that run exited zero.
FilesOnlyAfterInstall ==
    (Len(proc[1].steps) >= 1 /\ (Present(LauncherFile) \/ Present(TestFile))) =>
        (proc[1].rc1 = 0 /\ proc[1].rc2 = 0)

OldLauncherGoneAfterFailure ==
    /\ proc[1].sawLauncher
    /\ proc[1].pc = "done"
    /\ Failed(proc[1].rc2)
    /\ ~Present(LauncherFile)

====
